---- MODULE Spec2Model ----
(***************************************************************************)
(* Model of the iReserve e-mail server (src/api_server.py): the Cipher     *)
(* Codec (decrypt_email), decrypt-or-pass-through (process_email), the     *)
(* mail transport (send_email), the Recipient Resolver                     *)
(* (get_recipient_emails) and the three HTTP handlers EmailSender.post,    *)
(* BroadcastEmail.post and BookingReminder.post.                           *)
(*                                                                         *)
(* Strings are sequences of one-character strings, so that "'@' in email"  *)
(* and split(':', 1) are computed, not assumed.  Python's None is the      *)
(* value None below.                                                       *)
(***************************************************************************)
EXTENDS Integers, Sequences, FiniteSets, TLC

\* ---------------------------------------------------------------- bounds
\* Largest number of rows a storage query returns in the model.
MaxRows == 3

\* ------------------------------------------------------- string helpers
None == <<"None">>
AT == "@"
COLON == ":"

\* Python truthiness of an Optional[str]: None and "" are falsy.
Truthy(v) == v # None /\ v # <<>>

\* Python "c in s" for a one-character c.
Contains(s, c) == \E i \in 1..Len(s) : s[i] = c

CountChar(s, c) == Cardinality({i \in 1..Len(s) : s[i] = c})

\* Python s.split(c, 1): at most two parts, cut at the first c.
SplitFirst(s, c) ==
    IF ~Contains(s, c) THEN <<s>>
    ELSE LET k == CHOOSE i \in 1..Len(s) :
                      s[i] = c /\ \A j \in 1..(i-1) : s[j] # c
         IN  <<SubSeq(s, 1, k-1), SubSeq(s, k+1, Len(s))>>

HexDigits == {"0", "1"}

\* bytes.fromhex accepts an even number of hexadecimal digits.
IsHex(s) == Len(s) % 2 = 0 /\ \A i \in 1..Len(s) : s[i] \in HexDigits

\* ------------------------------------------------------ stored addresses
PlainA    == <<"a", "@", "x">>
PlainB    == <<"b", "@", "x">>
PlainTwoAt == <<"a", "@", "@", "x">>
NoAtText  == <<"a", "x">>
TokA1     == <<"0", "0", ":", "0", "0">>
TokA2     == <<"1", "1", ":", "1", "1">>
TokNoAt   == <<"0", "0", ":", "0", "1">>
TokBadPad == <<"1", "1", ":", "0", "0">>
TokBadHex == <<"z", "0", ":", "0", "0">>
TokNoColon == <<"z", "z">>
Empty     == <<>>

\* The values an e-mail column can hold, in the storage's sort order
\* (NULL last).
RawOrder == <<Empty, TokA1, TokNoAt, TokA2, TokBadPad, PlainA, PlainTwoAt,
              PlainB, TokBadHex, TokNoColon, None>>

RawEmails == {RawOrder[i] : i \in 1..Len(RawOrder)}

Rank(v) == CHOOSE i \in 1..Len(RawOrder) : RawOrder[i] = v

\* ------------------------------------------------------------ the codec
\* AES-256-CBC under ENCRYPTION_KEY followed by unpad and utf-8 decoding,
\* as a code book: the (iv, ciphertext) pairs that decrypt, and to what.
\* Every other pair fails (wrong IV length, bad padding, bad utf-8).
AESDecrypt(iv, ciphertext) ==
    IF      iv = <<"0", "0">> /\ ciphertext = <<"0", "0">>
         THEN [ok |-> TRUE, text |-> PlainA]
    ELSE IF iv = <<"1", "1">> /\ ciphertext = <<"1", "1">>
         THEN [ok |-> TRUE, text |-> PlainA]
    ELSE IF iv = <<"0", "0">> /\ ciphertext = <<"0", "1">>
         THEN [ok |-> TRUE, text |-> NoAtText]
    ELSE [ok |-> FALSE, text |-> None]

\* decrypt_email: ok = FALSE stands for the ValueError it raises.
decrypt_email(encrypted_text) ==
    LET parts == SplitFirst(encrypted_text, COLON)
    IN  IF Len(parts) # 2 THEN [ok |-> FALSE, text |-> None]
        ELSE IF ~IsHex(parts[1]) \/ ~IsHex(parts[2])
             THEN [ok |-> FALSE, text |-> None]
        ELSE AESDecrypt(parts[1], parts[2])

\* process_email: decrypt when there is no '@'; a failed decryption is
\* caught and the input returned as it came.
process_email(email) ==
    IF ~Truthy(email) THEN email
    ELSE IF ~Contains(email, AT)
         THEN LET d == decrypt_email(email)
              IN  IF d.ok THEN d.text ELSE email
    ELSE email

\* -------------------------------------------------------- mail transport
\* What the SMTP server does during one session.
SmtpOutcomes == {"ok", "connect_error", "login_error", "send_error"}

ErrorText(smtp) ==
    CASE smtp = "connect_error" -> "connection refused"
      [] smtp = "login_error"   -> "authentication failed"
      [] smtp = "send_error"    -> "recipient refused"
      [] OTHER                  -> "none"

NoError == "None"

\* send_email without its address check: whatever it is given goes to the
\* SMTP server.
send_email_unchecked(to_email, reply_to, cc, smtp) ==
    [success |-> smtp = "ok",
     error |-> IF smtp = "ok" THEN NoError ELSE ErrorText(smtp),
     raised |-> FALSE, connected |-> TRUE,
     delivered |-> smtp = "ok",
     to |-> to_email,
     reply_to |-> IF Truthy(reply_to) THEN reply_to ELSE None,
     cc |-> IF Truthy(cc) THEN cc ELSE None]

\* send_email: success/error are the returned pair; raised says whether an
\* exception left the function; connected says whether SMTP_SSL was
\* called; delivered says whether send_message completed; reply_to and cc
\* are the headers set on the message.
send_email(to_email, reply_to, cc, smtp) ==
    IF ~Truthy(to_email) \/ ~Contains(to_email, AT)
    THEN [success |-> FALSE, error |-> "Invalid email address",
          raised |-> FALSE, connected |-> FALSE, delivered |-> FALSE,
          to |-> to_email, reply_to |-> None, cc |-> None]
    ELSE [success |-> smtp = "ok",
          error |-> IF smtp = "ok" THEN NoError ELSE ErrorText(smtp),
          raised |-> FALSE, connected |-> TRUE,
          delivered |-> smtp = "ok",
          to |-> to_email,
          reply_to |-> IF Truthy(reply_to) THEN reply_to ELSE None,
          cc |-> IF Truthy(cc) THEN cc ELSE None]

\* ------------------------------------------------------------- storage
\* Where a storage access can fail.
DbFailures == {"none", "connect", "cursor", "execute", "fetch"}

RecipientClass == {"ALL", "RESIDENTS", "STAFF"}

RECURSIVE SeqsUpTo(_, _)
SeqsUpTo(S, n) ==
    IF n = 0 THEN {<<>>}
    ELSE LET shorter == SeqsUpTo(S, n - 1)
         IN  shorter \cup {Append(s, x) : s \in {t \in shorter : Len(t) = n - 1}, x \in S}

NoDuplicates(s) == \A i, j \in 1..Len(s) : i # j => s[i] # s[j]

Sorted(s) == \A i \in 1..(Len(s) - 1) : Rank(s[i]) <= Rank(s[i+1])

\* The rows the recipient query can return: the ALL query is a UNION, which
\* returns no value twice.
RecipientRows(recipient_type) ==
    IF recipient_type = "ALL"
    THEN {s \in SeqsUpTo(RawEmails, MaxRows) : NoDuplicates(s)}
    ELSE SeqsUpTo(RawEmails, MaxRows)

\* The rows the booking query can return: ORDER BY r.email.
BookingRows == {s \in SeqsUpTo(RawEmails, MaxRows) : Sorted(s)}

\* ------------------------------------------------------------- resolver
\* get_recipient_emails without the final "if '@' in email" filter.
get_recipient_emails_unfiltered(recipient_type, fail, rows) ==
    IF fail = "connect"
    THEN [raised |-> TRUE, error |-> "OperationalError", emails |-> <<>>,
          conn |-> "none", cur |-> "none"]
    ELSE IF fail = "cursor"
    THEN [raised |-> TRUE, error |-> "InterfaceError", emails |-> <<>>,
          conn |-> "open", cur |-> "none"]
    ELSE IF recipient_type \notin RecipientClass
    THEN [raised |-> TRUE, error |-> "UnboundLocalError", emails |-> <<>>,
          conn |-> "open", cur |-> "open"]
    ELSE IF fail \in {"execute", "fetch"}
    THEN [raised |-> TRUE, error |-> "DatabaseError", emails |-> <<>>,
          conn |-> "open", cur |-> "open"]
    ELSE LET raw_emails == SelectSeq(rows, LAMBDA v : Truthy(v))
         IN  [raised |-> FALSE, error |-> NoError,
              emails |-> [i \in 1..Len(raw_emails) |-> process_email(raw_emails[i])],
              conn |-> "closed", cur |-> "closed"]

\* get_recipient_emails returning its addresses last row first.
get_recipient_emails_reversed(recipient_type, fail, rows) ==
    IF fail = "connect"
    THEN [raised |-> TRUE, error |-> "OperationalError", emails |-> <<>>,
          conn |-> "none", cur |-> "none"]
    ELSE IF fail = "cursor"
    THEN [raised |-> TRUE, error |-> "InterfaceError", emails |-> <<>>,
          conn |-> "open", cur |-> "none"]
    ELSE IF recipient_type \notin RecipientClass
    THEN [raised |-> TRUE, error |-> "UnboundLocalError", emails |-> <<>>,
          conn |-> "open", cur |-> "open"]
    ELSE IF fail \in {"execute", "fetch"}
    THEN [raised |-> TRUE, error |-> "DatabaseError", emails |-> <<>>,
          conn |-> "open", cur |-> "open"]
    ELSE LET raw_emails == SelectSeq(rows, LAMBDA v : Truthy(v))
             n == Len(raw_emails)
             processed == [i \in 1..n |-> process_email(raw_emails[n + 1 - i])]
         IN  [raised |-> FALSE, error |-> NoError,
              emails |-> SelectSeq(processed, LAMBDA e : Contains(e, AT)),
              conn |-> "closed", cur |-> "closed"]

\* get_recipient_emails against a storage that fails at stage fail or
\* returns rows; raised stands for the exception that leaves the function,
\* conn and cur are the connection and cursor as the function leaves them.
get_recipient_emails(recipient_type, fail, rows) ==
    IF fail = "connect"
    THEN [raised |-> TRUE, error |-> "OperationalError", emails |-> <<>>,
          conn |-> "none", cur |-> "none"]
    ELSE IF fail = "cursor"
    THEN [raised |-> TRUE, error |-> "InterfaceError", emails |-> <<>>,
          conn |-> "open", cur |-> "none"]
    ELSE IF recipient_type \notin RecipientClass
    THEN [raised |-> TRUE, error |-> "UnboundLocalError", emails |-> <<>>,
          conn |-> "open", cur |-> "open"]
    ELSE IF fail \in {"execute", "fetch"}
    THEN [raised |-> TRUE, error |-> "DatabaseError", emails |-> <<>>,
          conn |-> "open", cur |-> "open"]
    ELSE LET raw_emails == SelectSeq(rows, LAMBDA v : Truthy(v))
             processed == [i \in 1..Len(raw_emails) |-> process_email(raw_emails[i])]
         IN  [raised |-> FALSE, error |-> NoError,
              emails |-> SelectSeq(processed, LAMBDA e : Contains(e, AT)),
              conn |-> "closed", cur |-> "closed"]

\* ------------------------------------------------- booking grouping
\* The grouping step without the membership test: every booking row opens
\* a group of its own.
AddBookingNoMerge(acc, clean_email, booking) ==
    Append(acc, [email |-> clean_email, bookings |-> <<booking>>])

\* One pass of "if clean_email not in bookings_by_email: ...; append": the
\* dict is a sequence of entries in insertion order.
AddBooking(acc, clean_email, booking) ==
    IF \E k \in 1..Len(acc) : acc[k].email = clean_email
    THEN LET k == CHOOSE k \in 1..Len(acc) : acc[k].email = clean_email
         IN  [acc EXCEPT ![k].bookings = Append(@, booking)]
    ELSE Append(acc, [email |-> clean_email, bookings |-> <<booking>>])

\* The grouping loop without its "continue": every address is kept.
DeliverableAny(clean_email) == TRUE

\* Whether a processed address passes "if '@' not in clean_email: continue".
Deliverable(clean_email) == Contains(clean_email, AT)

\* The grouping loop of BookingReminder.post over rows i, i+1, ...; raised
\* stands for the TypeError of "'@' not in None".
RECURSIVE GroupBookings(_, _, _)
GroupBookings(rows, i, acc) ==
    IF i > Len(rows) THEN [raised |-> FALSE, groups |-> acc]
    ELSE LET clean_email == process_email(rows[i])
         IN  IF clean_email = None
             THEN [raised |-> TRUE, groups |-> acc]
             ELSE IF ~Deliverable(clean_email)
             THEN GroupBookings(rows, i + 1, acc)
             ELSE GroupBookings(rows, i + 1, AddBooking(acc, clean_email, i))

\* ------------------------------------------------------------ requests
BroadcastFields == {"subject", "message", "recipient_type"}

\* A broadcast request body: the keys it carries and its recipient_type
\* ("absent" when the key is missing).
BroadcastRequests ==
    {d \in [fields : SUBSET BroadcastFields,
            recipient_type : RecipientClass \cup {"INVALID", "absent"}] :
        ("recipient_type" \in d.fields) <=> (d.recipient_type # "absent")}

required_fields == {"client_name", "client_email", "recipient_email", "subject", "message"}

CcLists == {None, <<>>, <<PlainA, PlainB>>}

\* A single-send request body: the keys it carries, its recipient_email
\* (None when the key is missing or null) and its cc list.
SendRequests ==
    {d \in [fields : SUBSET required_fields, recipient_email : RawEmails, cc : CcLists] :
        ("recipient_email" \notin d.fields) => (d.recipient_email = None)}

\* ---------------------------------------------------------------- state
VARIABLES
    pc,                 \* "idle", "dispatch" (inside the send loop), "done"
    route,              \* the handler in progress
    data,               \* request.json
    db,                 \* what storage did in this request: [fail, rows]
    conn,               \* the storage connection: "none", "open", "closed"
    cur,                \* the cursor: "none", "open", "closed"
    emails,             \* BroadcastEmail.post: the resolved list
    bookings_by_email,  \* BookingReminder.post: the groups, in dict order
    total_bookings,     \* BookingReminder.post: len(bookings_data)
    results,            \* the ledger
    emails_sent,        \* BookingReminder.post: the success counter
    calls,              \* every send_email call of the request, in order
    response            \* the handler's return value

vars == <<pc, route, data, db, conn, cur, emails, bookings_by_email,
          total_bookings, results, emails_sent, calls, response>>

NoData == [fields |-> {}]
NoDb == [fail |-> "unused", rows |-> <<>>]
NoResponse == [code |-> 0, status |-> "none", message |-> "none"]

Init ==
    /\ pc = "idle"
    /\ route = "none"
    /\ data = NoData
    /\ db = NoDb
    /\ conn = "none"
    /\ cur = "none"
    /\ emails = <<>>
    /\ bookings_by_email = <<>>
    /\ total_bookings = 0
    /\ results = <<>>
    /\ emails_sent = 0
    /\ calls = <<>>
    /\ response = NoResponse

ErrorResponse(code, message, error) ==
    [code |-> code, status |-> "error", message |-> message, error |-> error]

\* ------------------------------------------------------ EmailSender.post
\* data['client_email'], used as Reply-To.
client_email == PlainB

\* The handler without the check of the processed recipient.
EmailSenderUnchecked(d, smtp) ==
    IF ~(required_fields \subseteq d.fields)
    THEN [response |-> ErrorResponse(400, "Missing required fields", NoError),
          calls |-> <<>>]
    ELSE LET r == send_email(process_email(d.recipient_email), client_email, d.cc, smtp)
         IN  [response |->
                 IF r.success
                 THEN [code |-> 200, status |-> "success",
                       message |-> "Email sent successfully"]
                 ELSE ErrorResponse(500, "Failed to send email", r.error),
              calls |-> <<r>>]

\* The whole handler: its response and the send_email calls it made.
EmailSender(d, smtp) ==
    IF ~(required_fields \subseteq d.fields)
    THEN [response |-> ErrorResponse(400, "Missing required fields", NoError),
          calls |-> <<>>]
    ELSE LET processed_email == process_email(d.recipient_email)
         IN  IF processed_email = None
             THEN \* "'@' not in None" raises TypeError, which nothing catches
                  [response |-> ErrorResponse(500, "Internal Server Error", "TypeError"),
                   calls |-> <<>>]
             ELSE IF ~Contains(processed_email, AT)
             THEN [response |-> ErrorResponse(400, "Invalid recipient email", NoError),
                   calls |-> <<>>]
             ELSE LET r == send_email(processed_email, client_email, d.cc, smtp)
                  IN  [response |->
                          IF r.success
                          THEN [code |-> 200, status |-> "success",
                                message |-> "Email sent successfully"]
                          ELSE ErrorResponse(500, "Failed to send email", r.error),
                       calls |-> <<r>>]

EmailSenderPost ==
    /\ pc = "idle"
    /\ \E d \in SendRequests, smtp \in SmtpOutcomes :
          LET out == EmailSender(d, smtp)
          IN  /\ data' = d
              /\ response' = out.response
              /\ calls' = out.calls
    /\ route' = "send"
    /\ pc' = "done"
    /\ UNCHANGED <<db, conn, cur, emails, bookings_by_email, total_bookings,
                   results, emails_sent>>

\* --------------------------------------------------- BroadcastEmail.post
\* The handler without "if not emails: return ..., 404".
BroadcastResolveNoEmptyCheck(d, fail, rows) ==
    IF ~(BroadcastFields \subseteq d.fields)
    THEN [pc |-> "done", emails |-> <<>>, conn |-> "none", cur |-> "none",
          response |-> ErrorResponse(400, "Missing required fields", NoError)]
    ELSE LET g == get_recipient_emails(d.recipient_type, fail, rows)
         IN  IF g.raised
             THEN [pc |-> "done", emails |-> <<>>, conn |-> g.conn, cur |-> g.cur,
                   response |-> ErrorResponse(500, "Database error", g.error)]
             ELSE [pc |-> "dispatch", emails |-> g.emails, conn |-> g.conn,
                   cur |-> g.cur, response |-> NoResponse]

\* Validation and resolution, up to the send loop.
BroadcastResolve(d, fail, rows) ==
    IF ~(BroadcastFields \subseteq d.fields)
    THEN [pc |-> "done", emails |-> <<>>, conn |-> "none", cur |-> "none",
          response |-> ErrorResponse(400, "Missing required fields", NoError)]
    ELSE LET g == get_recipient_emails(d.recipient_type, fail, rows)
         IN  IF g.raised
             THEN [pc |-> "done", emails |-> <<>>, conn |-> g.conn, cur |-> g.cur,
                   response |-> ErrorResponse(500, "Database error", g.error)]
             ELSE IF g.emails = <<>>
             THEN [pc |-> "done", emails |-> <<>>, conn |-> g.conn, cur |-> g.cur,
                   response |-> ErrorResponse(404, "No valid recipients found", NoError)]
             ELSE [pc |-> "dispatch", emails |-> g.emails, conn |-> g.conn,
                   cur |-> g.cur, response |-> NoResponse]

\* What storage can do in a broadcast request (nothing when the request
\* never reaches it).
BroadcastDb(d) ==
    IF ~(BroadcastFields \subseteq d.fields) THEN {NoDb}
    ELSE {[fail |-> f, rows |-> <<>>] : f \in DbFailures \ {"none"}}
         \cup {[fail |-> "none", rows |-> r] :
                 r \in IF d.recipient_type \in RecipientClass
                       THEN RecipientRows(d.recipient_type)
                       ELSE {<<>>}}

BroadcastPost ==
    /\ pc = "idle"
    /\ \E d \in BroadcastRequests :
          \E s \in BroadcastDb(d) :
             LET b == BroadcastResolve(d, s.fail, s.rows)
             IN  /\ data' = d
                 /\ db' = s
                 /\ pc' = b.pc
                 /\ emails' = b.emails
                 /\ conn' = b.conn
                 /\ cur' = b.cur
                 /\ response' = b.response
    /\ route' = "broadcast"
    /\ UNCHANGED <<bookings_by_email, total_bookings, results, emails_sent, calls>>

\* The ledger entry without the transport's error text.
BroadcastEntryDropError(email, r) ==
    [email |-> email,
     status |-> IF r.success THEN "success" ELSE "failed",
     error |-> NoError]

\* The ledger entry appended after one send.
BroadcastEntry(email, r) ==
    [email |-> email,
     status |-> IF r.success THEN "success" ELSE "failed",
     error |-> r.error]

\* One iteration of "for email in emails".
BroadcastSend ==
    /\ pc = "dispatch"
    /\ route = "broadcast"
    /\ Len(results) < Len(emails)
    /\ \E smtp \in SmtpOutcomes :
          LET email == emails[Len(results) + 1]
              r == send_email(email, None, None, smtp)
          IN  /\ calls' = Append(calls, r)
              /\ results' = Append(results, BroadcastEntry(email, r))
    /\ UNCHANGED <<pc, route, data, db, conn, cur, emails, bookings_by_email,
                   total_bookings, emails_sent, response>>

\* Counting every ledger entry as a success.
success_count_all(rs) == Len(rs)

success_count(rs) == Cardinality({i \in 1..Len(rs) : rs[i].status = "success"})

BroadcastResponse(rs) ==
    [code |-> 200, status |-> "success", message |-> "Broadcast complete",
     success_count |-> success_count(rs), total |-> Len(rs), results |-> rs]

\* The loop is over: count and return.
BroadcastReturn ==
    /\ pc = "dispatch"
    /\ route = "broadcast"
    /\ Len(results) = Len(emails)
    /\ response' = BroadcastResponse(results)
    /\ pc' = "done"
    /\ UNCHANGED <<route, data, db, conn, cur, emails, bookings_by_email,
                   total_bookings, results, emails_sent, calls>>

\* -------------------------------------------------- BookingReminder.post
NoBookingsDetail ==
    [text |-> "No bookings starting in the next 24 hours found",
     email |-> None, booking_count |-> 0, error |-> NoError]

ReminderResponse(sent, total, details) ==
    [code |-> 200, status |-> "success", message |-> "reminders",
     messages_sent |-> sent, total_bookings |-> total, details |-> details]

ProcessingError(error) ==
    ErrorResponse(500, "Failed to process booking reminders", error)

\* The handler with a failed query treated as an empty result.
ReminderResolveSwallow(fail, rows) ==
    IF fail = "connect"
    THEN [pc |-> "done", groups |-> <<>>, total |-> 0, conn |-> "none",
          cur |-> "none", response |-> ProcessingError("OperationalError")]
    ELSE IF fail = "cursor"
    THEN [pc |-> "done", groups |-> <<>>, total |-> 0, conn |-> "closed",
          cur |-> "none", response |-> ProcessingError("InterfaceError")]
    ELSE IF fail \in {"execute", "fetch"} \/ rows = <<>>
    THEN [pc |-> "done", groups |-> <<>>, total |-> 0, conn |-> "closed",
          cur |-> "closed",
          response |-> ReminderResponse(0, 0, <<NoBookingsDetail>>)]
    ELSE LET g == GroupBookings(rows, 1, <<>>)
         IN  IF g.raised
             THEN [pc |-> "done", groups |-> <<>>, total |-> Len(rows),
                   conn |-> "closed", cur |-> "closed",
                   response |-> ProcessingError("TypeError")]
             ELSE [pc |-> "dispatch", groups |-> g.groups, total |-> Len(rows),
                   conn |-> "open", cur |-> "open", response |-> NoResponse]

\* The query, the early return and the grouping loop, with the finally
\* block of every path that returns here.
ReminderResolve(fail, rows) ==
    IF fail = "connect"
    THEN [pc |-> "done", groups |-> <<>>, total |-> 0, conn |-> "none",
          cur |-> "none", response |-> ProcessingError("OperationalError")]
    ELSE IF fail = "cursor"
    THEN [pc |-> "done", groups |-> <<>>, total |-> 0, conn |-> "closed",
          cur |-> "none", response |-> ProcessingError("InterfaceError")]
    ELSE IF fail \in {"execute", "fetch"}
    THEN [pc |-> "done", groups |-> <<>>, total |-> 0, conn |-> "closed",
          cur |-> "closed", response |-> ProcessingError("DatabaseError")]
    ELSE IF rows = <<>>
    THEN [pc |-> "done", groups |-> <<>>, total |-> 0, conn |-> "closed",
          cur |-> "closed",
          response |-> ReminderResponse(0, 0, <<NoBookingsDetail>>)]
    ELSE LET g == GroupBookings(rows, 1, <<>>)
         IN  IF g.raised
             THEN [pc |-> "done", groups |-> <<>>, total |-> Len(rows),
                   conn |-> "closed", cur |-> "closed",
                   response |-> ProcessingError("TypeError")]
             ELSE [pc |-> "dispatch", groups |-> g.groups, total |-> Len(rows),
                   conn |-> "open", cur |-> "open", response |-> NoResponse]

ReminderDb ==
    {[fail |-> f, rows |-> <<>>] : f \in DbFailures \ {"none"}}
    \cup {[fail |-> "none", rows |-> r] : r \in BookingRows}

ReminderPost ==
    /\ pc = "idle"
    /\ \E s \in ReminderDb :
          LET b == ReminderResolve(s.fail, s.rows)
          IN  /\ db' = s
              /\ pc' = b.pc
              /\ bookings_by_email' = b.groups
              /\ total_bookings' = b.total
              /\ conn' = b.conn
              /\ cur' = b.cur
              /\ response' = b.response
    /\ route' = "reminders"
    /\ UNCHANGED <<data, emails, results, emails_sent, calls>>

\* The detail line appended after one send.
ReminderDetail(email, booking_count, r) ==
    IF r.success
    THEN [text |-> "Reminder sent to", email |-> email,
          booking_count |-> booking_count, error |-> NoError]
    ELSE [text |-> "Failed to send reminder to", email |-> email,
          booking_count |-> 0, error |-> r.error]

\* One iteration of "for email, data in bookings_by_email.items()".
ReminderSend ==
    /\ pc = "dispatch"
    /\ route = "reminders"
    /\ Len(results) < Len(bookings_by_email)
    /\ \E smtp \in SmtpOutcomes :
          LET group == bookings_by_email[Len(results) + 1]
              booking_count == Len(group.bookings)
              r == send_email(group.email, None, None, smtp)
          IN  /\ calls' = Append(calls, r)
              /\ emails_sent' = IF r.success THEN emails_sent + 1 ELSE emails_sent
              /\ results' = Append(results, ReminderDetail(group.email, booking_count, r))
    /\ UNCHANGED <<pc, route, data, db, conn, cur, emails, bookings_by_email,
                   total_bookings, response>>

\* The loop is over: return, and the finally block closes cursor and
\* connection.
ReminderReturn ==
    /\ pc = "dispatch"
    /\ route = "reminders"
    /\ Len(results) = Len(bookings_by_email)
    /\ response' = ReminderResponse(emails_sent, total_bookings, results)
    /\ conn' = "closed"
    /\ cur' = "closed"
    /\ pc' = "done"
    /\ UNCHANGED <<route, data, db, emails, bookings_by_email, total_bookings,
                   results, emails_sent, calls>>

\* ------------------------------------------------------- the server loop
\* The response has been sent; request-local state is dropped.
NextRequest ==
    /\ pc = "done"
    /\ pc' = "idle"
    /\ route' = "none"
    /\ data' = NoData
    /\ db' = NoDb
    /\ conn' = "none"
    /\ cur' = "none"
    /\ emails' = <<>>
    /\ bookings_by_email' = <<>>
    /\ total_bookings' = 0
    /\ results' = <<>>
    /\ emails_sent' = 0
    /\ calls' = <<>>
    /\ response' = NoResponse

Next ==
    \/ EmailSenderPost
    \/ BroadcastPost
    \/ BroadcastSend
    \/ BroadcastReturn
    \/ ReminderPost
    \/ ReminderSend
    \/ ReminderReturn
    \/ NextRequest

Spec == Init /\ [][Next]_vars

\* ------------------------------------------- send_email called directly
\* The arguments of a direct call, as the unit tests make it.
SendEmailArgs ==
    [to_email : RawEmails, reply_to : {None, PlainB}, cc : CcLists,
     smtp : SmtpOutcomes]

CallSendEmail ==
    /\ pc = "idle"
    /\ \E a \in SendEmailArgs :
          /\ data' = a
          /\ calls' = <<send_email(a.to_email, a.reply_to, a.cc, a.smtp)>>
    /\ route' = "send_email"
    /\ pc' = "done"
    /\ UNCHANGED <<db, conn, cur, emails, bookings_by_email, total_bookings,
                   results, emails_sent, response>>

NextUnit == CallSendEmail \/ NextRequest

SpecUnit == Init /\ [][NextUnit]_vars

\* ======================================================== properties
\* The request is a batch request that has returned.
BatchDone == pc = "done" /\ route \in {"broadcast", "reminders"}

\* The addresses the send loop of the request iterates over.
Recipients ==
    IF route = "broadcast" THEN emails
    ELSE [i \in 1..Len(bookings_by_email) |-> bookings_by_email[i].email]

\* The ledger of the response (results of a broadcast, details of a
\* reminder run).
Ledger ==
    IF route = "broadcast" THEN response.results ELSE response.details

\* The ledger entry i records the failure of call i with its error text.
RecordsFailure(entry, call) ==
    /\ entry.error = call.error
    /\ IF route = "broadcast"
       THEN entry.status = "failed"
       ELSE entry.text = "Failed to send reminder to"

RecordsSuccess(entry) ==
    IF route = "broadcast"
    THEN entry.status = "success"
    ELSE entry.text = "Reminder sent to"

\* C1: in broadcast and in reminder mode a transport failure never aborts
\* the batch: whatever the transport outcomes, when the request has
\* returned after resolving at least one recipient, the i-th recipient
\* (booking group) got the i-th and only send_email call and the i-th
\* ledger entry, a failed send is recorded as failed with the transport's
\* error text, and the response is HTTP 200.
C1_TransportFailureNeverAborts ==
    (BatchDone /\ Recipients # <<>>) =>
        /\ response.code = 200
        /\ Len(calls) = Len(Recipients)
        /\ Len(Ledger) = Len(Recipients)
        /\ \A i \in 1..Len(Recipients) :
              /\ calls[i].to = Recipients[i]
              /\ Ledger[i].email = Recipients[i]
              /\ calls[i].success => RecordsSuccess(Ledger[i])
              /\ ~calls[i].success => RecordsFailure(Ledger[i], calls[i])

\* A broadcast whose first send failed and whose second send succeeded.
C1_Witness ==
    /\ BatchDone
    /\ route = "broadcast"
    /\ Len(calls) >= 2
    /\ ~calls[1].success
    /\ calls[2].success
    /\ response.code = 200
    /\ response.results[1].status = "failed"
    /\ response.results[1].error = "connection refused"

CountFailedStatus(rs) == Cardinality({i \in 1..Len(rs) : rs[i].status = "failed"})
CountSuccessStatus(rs) == Len(rs) - CountFailedStatus(rs)
CountFailedDetails(ds) ==
    Cardinality({i \in 1..Len(ds) : ds[i].text = "Failed to send reminder to"})

BroadcastCountsAddUp ==
    /\ response.total = Len(response.results)
    /\ response.total = Len(emails)
    /\ \A i \in 1..Len(response.results) :
          response.results[i].status \in {"success", "failed"}
    /\ response.success_count = CountSuccessStatus(response.results)
    /\ response.success_count + CountFailedStatus(response.results) = response.total

ReminderCountsAddUp ==
    /\ response.messages_sent + CountFailedDetails(response.details)
          = Len(response.details)
    /\ Len(response.details) = Len(bookings_by_email)

\* C2 as stated: in every 200 response of a batch request, successes plus
\* failures equal the ledger's length: k/n of a broadcast has n = number of
\* ledger entries = number of resolved recipients and k = number of success
\* entries; messages_sent plus the number of "Failed to send" details equals
\* the number of details = number of booking groups.
C2_CountsAddUpAlways ==
    (BatchDone /\ response.code = 200) =>
        IF route = "broadcast" THEN BroadcastCountsAddUp ELSE ReminderCountsAddUp

\* C2 (amended): as above, except that a reminder run whose query returned
\* no row answers with messages_sent = 0 and one informational detail
\* line, which is neither a success nor a failure.
C2_CountsAddUp ==
    (BatchDone /\ response.code = 200) =>
        IF route = "broadcast" THEN BroadcastCountsAddUp
        ELSE IF db.rows # <<>> THEN ReminderCountsAddUp
        ELSE /\ response.messages_sent = 0
             /\ Len(response.details) = 1
             /\ response.details[1].text = "No bookings starting in the next 24 hours found"
             /\ CountFailedDetails(response.details) = 0

\* A reminder run with one success and one failure in its ledger.
C2_Witness ==
    /\ BatchDone
    /\ route = "reminders"
    /\ response.code = 200
    /\ response.messages_sent = 1
    /\ CountFailedDetails(response.details) = 1
    /\ Len(response.details) = 2

\* The address row i of the query resolves to (decrypt or pass through).
CleanAddress(i) == process_email(db.rows[i])

\* The rows whose address can be delivered to.
DeliverableRows ==
    {i \in 1..Len(db.rows) : db.rows[i] # None /\ Contains(CleanAddress(i), AT)}

\* A reminder run that got its rows and went through the send loop.
ReminderDispatched ==
    BatchDone /\ route = "reminders" /\ response.code = 200 /\ db.rows # <<>>

\* C3: grouped reminder mode sends exactly one email per unique recipient
\* address (unique after decrypt-or-pass-through), however many booking
\* rows the recipient has: the send_email calls of a reminder run go to
\* pairwise different addresses, which are exactly the deliverable
\* addresses of the rows; so messages_sent <= total_bookings, and they are
\* equal only when no two rows resolve to the same address.
C3_OneEmailPerRecipient ==
    (BatchDone /\ route = "reminders" /\ response.code = 200) =>
        /\ \A i, j \in 1..Len(calls) : i # j => calls[i].to # calls[j].to
        /\ {calls[i].to : i \in 1..Len(calls)}
              = {CleanAddress(i) : i \in DeliverableRows}
        /\ response.messages_sent <= response.total_bookings
        /\ response.total_bookings = Len(db.rows)
        /\ (response.messages_sent = response.total_bookings) =>
              \A i, j \in 1..Len(db.rows) :
                  i # j => CleanAddress(i) # CleanAddress(j)

\* A recipient with two booking rows, stored once encrypted and once in
\* plain text, got one reminder.
C3_Witness ==
    /\ ReminderDispatched
    /\ \E i, j \in 1..Len(db.rows) :
          /\ i # j
          /\ db.rows[i] # db.rows[j]
          /\ CleanAddress(i) = CleanAddress(j)
          /\ Contains(CleanAddress(i), AT)
    /\ Len(calls) = 1
    /\ response.messages_sent = 1
    /\ response.total_bookings = 2

\* The reminder query returned rows and none of them can be delivered to.
NoDeliverableBooking ==
    /\ route = "reminders"
    /\ db.fail = "none"
    /\ DeliverableRows = {}

\* C4 as stated: a reminder run that resolves to no deliverable recipient
\* (no rows, or only rows whose stored address is undeliverable after
\* decrypt-or-pass-through) reports messages_sent = 0 and total = 0 and
\* never calls send_email.
C4_EmptySetZeroTotal ==
    (BatchDone /\ NoDeliverableBooking
       /\ \A i \in 1..Len(db.rows) : db.rows[i] # None) =>
        /\ calls = <<>>
        /\ response.code = 200
        /\ response.messages_sent = 0
        /\ response.total_bookings = 0

\* C4 (amended): a batch request that resolves to no deliverable recipient
\* never calls send_email and reports no message sent.  A reminder run
\* answers 200 with messages_sent = 0 and total_bookings = the number of
\* rows the query returned (0 only when it returned none), unless a row's
\* address is NULL, which is answered with 500; a broadcast answers 404
\* without counts.
C4_EmptySetNothingSent ==
    /\ (BatchDone /\ NoDeliverableBooking) =>
          /\ calls = <<>>
          /\ IF \E i \in 1..Len(db.rows) : db.rows[i] = None
             THEN response.code = 500
             ELSE /\ response.code = 200
                  /\ response.messages_sent = 0
                  /\ response.total_bookings = Len(db.rows)
                  /\ CountFailedDetails(response.details) = 0
    /\ (BatchDone /\ route = "broadcast" /\ db.fail = "none"
          /\ data.recipient_type \in RecipientClass /\ DeliverableRows = {}) =>
          /\ calls = <<>>
          /\ response.code = 404

\* A reminder run over two rows, both undeliverable: nothing sent, total 2.
C4_Witness ==
    /\ BatchDone
    /\ NoDeliverableBooking
    /\ Len(db.rows) = 2
    /\ response.code = 200
    /\ response.messages_sent = 0
    /\ response.total_bookings = 2
    /\ calls = <<>>

\* The request fails validation: a broadcast without one of its required
\* fields or with a recipient_type outside the enum, a single send without
\* one of its required fields.
ValidationError ==
    \/ /\ route = "broadcast"
       /\ \/ ~(BroadcastFields \subseteq data.fields)
          \/ data.recipient_type \notin RecipientClass
    \/ /\ route = "send"
       /\ ~(required_fields \subseteq data.fields)

\* C5: a validation error is rejected before any resolution or dispatch
\* begins: such a request is answered with HTTP 400, no storage connection
\* was opened and send_email was not called.
C5_ValidationRejectedFirst ==
    (pc = "done" /\ ValidationError) =>
        /\ response.code = 400
        /\ conn = "none"
        /\ calls = <<>>

\* A broadcast whose storage answered and whose recipient_type is valid.
BroadcastResolved ==
    /\ route = "broadcast"
    /\ pc \in {"dispatch", "done"}
    /\ BroadcastFields \subseteq data.fields
    /\ data.recipient_type \in RecipientClass
    /\ db.fail = "none"

\* Row i holds a candidate without '@' whose decryption fails.
DecodeFails(raw) ==
    /\ raw # None
    /\ raw # <<>>
    /\ ~Contains(raw, AT)
    /\ ~decrypt_email(raw).ok

RemoveAt(seq, i) == SubSeq(seq, 1, i - 1) \o SubSeq(seq, i + 1, Len(seq))

\* C6: isolation of decode failures: when get_recipient_emails has run over
\* a candidate list, a candidate without '@' whose decryption fails is not
\* in its output, no exception left the function (the broadcast did not
\* answer 500), and the output is what get_recipient_emails returns for the
\* list without that candidate: same addresses, same order.
C6_DecodeFailureIsolated ==
    BroadcastResolved =>
        \A i \in 1..Len(db.rows) :
            DecodeFails(db.rows[i]) =>
                /\ response.code # 500
                /\ \A k \in 1..Len(emails) : emails[k] # db.rows[i]
                /\ emails = get_recipient_emails(data.recipient_type, "none",
                                                 RemoveAt(db.rows, i)).emails

\* A failing candidate between two candidates that resolve.
C6_Witness ==
    /\ BroadcastResolved
    /\ Len(db.rows) = 3
    /\ DecodeFails(db.rows[2])
    /\ db.rows[1] = TokA1
    /\ emails = <<PlainA, PlainB>>

\* The storage of a batch request failed.
StorageFailed == db.fail \in DbFailures \ {"none"}

WellFormedBroadcast ==
    /\ route = "broadcast"
    /\ BroadcastFields \subseteq data.fields
    /\ data.recipient_type \in RecipientClass

\* C7 as stated: a well-formed broadcast or a reminder request returns a
\* non-200 status if and only if recipients could not be resolved at all
\* (storage error, or zero deliverable recipients), a storage error giving
\* 500.
C7_Non200IffUnresolved ==
    (pc = "done" /\ (WellFormedBroadcast \/ route = "reminders")) =>
        /\ StorageFailed => response.code = 500
        /\ (response.code # 200) <=> (StorageFailed \/ DeliverableRows = {})

\* C7 (amended): a well-formed broadcast returns 500 on a storage error,
\* 404 when no recipient is deliverable and 200 otherwise, all sends
\* failing included.  A reminder request returns 500 on a storage error or
\* when a row's address is NULL, and 200 otherwise: also when the query
\* returned no row or no row is deliverable.
C7_StatusByResolution ==
    /\ (pc = "done" /\ WellFormedBroadcast) =>
          response.code = IF StorageFailed THEN 500
                          ELSE IF DeliverableRows = {} THEN 404
                          ELSE 200
    /\ (pc = "done" /\ route = "reminders") =>
          response.code = IF StorageFailed THEN 500
                          ELSE IF \E i \in 1..Len(db.rows) : db.rows[i] = None THEN 500
                          ELSE 200

\* A reminder run without any deliverable recipient, answered with 200.
C7_Witness ==
    /\ pc = "done"
    /\ route = "reminders"
    /\ db.fail = "none"
    /\ db.rows # <<>>
    /\ DeliverableRows = {}
    /\ response.code = 200

\* C8: a storage failure aborts the whole batch before any send: when
\* opening the connection or running the query fails, the broadcast or
\* reminder request answers 500 with status error and has made no
\* send_email call; and a request that has made its first send makes one
\* for every recipient before it returns, with 200.
C8_StorageFailureBeforeSends ==
    /\ (route \in {"broadcast", "reminders"} /\ StorageFailed) =>
          /\ pc = "done"
          /\ response.code = 500
          /\ response.status = "error"
          /\ calls = <<>>
    /\ (route \in {"broadcast", "reminders"} /\ calls # <<>>) =>
          /\ ~StorageFailed
          /\ Len(calls) <= Len(Recipients)
          /\ pc = "done" => (Len(calls) = Len(Recipients) /\ response.code = 200)
          /\ pc # "done" => (pc = "dispatch" /\ response = NoResponse)

\* A reminder request whose query failed.
C8_Witness ==
    /\ pc = "done"
    /\ route = "reminders"
    /\ db.fail = "execute"
    /\ response.code = 500
    /\ calls = <<>>

\* C9: send_email never raises and always returns a (success, errorText)
\* pair: (False, "Invalid email address") without an SMTP connection for an
\* empty address or one without '@', (False, exception text) when connect,
\* login or send raises, and (True, None) only when the SMTP send
\* completed.
C9_SendEmailTotal ==
    (pc = "done" /\ route = "send_email") =>
        LET r == calls[1]
            invalid == data.to_email = None \/ data.to_email = <<>>
                          \/ ~Contains(data.to_email, AT)
        IN  /\ ~r.raised
            /\ r.success \in BOOLEAN
            /\ invalid => (~r.success /\ r.error = "Invalid email address"
                             /\ ~r.connected)
            /\ (~invalid /\ data.smtp # "ok") =>
                  (~r.success /\ r.error = ErrorText(data.smtp))
            /\ r.success <=> (~invalid /\ data.smtp = "ok")
            /\ r.success => (r.delivered /\ r.error = NoError)

\* send_email called with an undecrypted token while the server is up.
C9_Witness ==
    /\ pc = "done"
    /\ route = "send_email"
    /\ data.to_email = TokA1
    /\ data.smtp = "ok"
    /\ ~calls[1].success
    /\ calls[1].error = "Invalid email address"
    /\ ~calls[1].connected

\* The addresses handed to the Dispatch Engine in the request.
DispatchedAddresses ==
    {emails[i] : i \in 1..Len(emails)}
    \cup {bookings_by_email[i].email : i \in 1..Len(bookings_by_email)}
    \cup (IF route \in {"send", "broadcast", "reminders"}
          THEN {calls[i].to : i \in 1..Len(calls)} ELSE {})

\* C10 as stated: every address handed to the Dispatch Engine contains
\* exactly one '@'.
C10_ExactlyOneAt ==
    \A e \in DispatchedAddresses : CountChar(e, AT) = 1

\* C10 (amended): every address handed to the Dispatch Engine (every
\* element returned by get_recipient_emails, every key of
\* bookings_by_email, the processed recipient of a single send) contains
\* at least one '@'.
C10_AtLeastOneAt ==
    \A e \in DispatchedAddresses : e # None /\ CountChar(e, AT) >= 1

\* A single send to a stored token that decrypts to an address.
C10_Witness ==
    /\ pc = "done"
    /\ route = "send"
    /\ data.recipient_email = TokA2
    /\ Len(calls) = 1
    /\ calls[1].to = PlainA

\* C11: the Recipient Resolver yields a deduplicated set: whatever the
\* recipient class and the stored rows, the list get_recipient_emails
\* returns holds no address twice, so that no two send_email calls of one
\* broadcast go to the same address.
C11_NoAddressTwice ==
    route = "broadcast" =>
        /\ \A i, j \in 1..Len(emails) : i # j => emails[i] # emails[j]
        /\ \A i, j \in 1..Len(calls) : i # j => calls[i].to # calls[j].to

\* The rows of the query that hold an address (not NULL, not empty), in
\* row order.
NonEmptyRows == SelectSeq(db.rows, LAMBDA v : v # None /\ v # <<>>)

\* Every non-empty row of the query is a plaintext address.
AllPlaintext ==
    \A i \in 1..Len(NonEmptyRows) : Contains(NonEmptyRows[i], AT)

\* C12: plaintext candidates are resolved unchanged: when every non-empty
\* row the storage returned contains '@', get_recipient_emails returns
\* exactly those values in row order, for ALL, RESIDENTS and STAFF alike,
\* and the broadcast sends go out one at a time in that order: the calls
\* made so far are always the first addresses of that list, and a step
\* adds at most one call, at the end.
C12_PlaintextUnchangedInOrder ==
    /\ [](( BroadcastResolved /\ AllPlaintext) =>
            /\ emails = NonEmptyRows
            /\ Len(calls) <= Len(NonEmptyRows)
            /\ \A i \in 1..Len(calls) : calls[i].to = NonEmptyRows[i]
            /\ pc = "done" => Len(calls) = Len(NonEmptyRows))
    /\ [][(route = "broadcast" /\ route' = "broadcast") =>
            \/ calls' = calls
            \/ /\ Len(calls') = Len(calls) + 1
               /\ SubSeq(calls', 1, Len(calls)) = calls]_vars

\* A STAFF broadcast over plaintext rows that are not in sort order, with a
\* NULL row between them, sent in row order.
C12_Witness ==
    /\ BroadcastResolved
    /\ pc = "done"
    /\ data.recipient_type = "STAFF"
    /\ db.rows = <<PlainB, None, PlainA>>
    /\ Len(calls) = 2
    /\ calls[1].to = PlainB
    /\ calls[2].to = PlainA

\* C13: every storage connection and cursor opened while handling a
\* request is closed by the time the request returns, on every path
\* (successful resolution, unrecognised recipient type, failing query,
\* early no-bookings return), in get_recipient_emails as in the reminder
\* handler.
C13_ConnectionsClosedOnReturn ==
    pc = "done" => (conn # "open" /\ cur # "open")

====
